---- MODULE Spec2Model ----
(***************************************************************************)
(* Model of lookout.core.data_requests: the DataService connection session *)
(* (one gRPC channel per calling thread, two lazily created stubs, the     *)
(* registry of all channels), the _handle_rpc_errors wrapper shared by the *)
(* six with_* decorators, and the undecorated RPC callers.                 *)
(*                                                                         *)
(* The code takes no lock, so every statement that reads or writes the     *)
(* shared DataService fields is one step of the calling thread and steps   *)
(* of different threads interleave freely (Spec).  OrderlySpec is the same *)
(* machine used the way AnalyzerContextManager uses it: shutdown() runs    *)
(* only while no other call is in progress.  ManagerSpec is the lifecycle  *)
(* of lookout.core.helpers.analyzer_context_manager.AnalyzerContextManager *)
(* itself: __enter__, __exit__ and the review() / push() proxies.          *)
(***************************************************************************)
EXTENDS Naturals, Sequences, FiniteSets, TLC

\* ---------------------------------------------------------------- bounds
NumThreads == 2
MaxChannels == 3
\* Longest stream the data service answers a request with.
MaxStream == 2
\* Driver versions are 1..MaxVersion.
MaxVersion == 2
\* Longest list of requirements given to check_bblfsh_driver_versions.
MaxRequirements == 2
\* Ports find_port() may return.
MaxPort == 2
\* Calls made on one AnalyzerContextManager.
MaxCalls == 4

Threads == 1..NumThreads
ChannelIds == 1..MaxChannels

\* Python's None, for a slot attribute (getattr(..., None)), a local variable
\* or a return value.  Channels are numbered from 1.
None == 0

\* A stub is modelled by the channel it was constructed on: DataStub(channel)
\* and ProtocolServiceStub(channel) keep that channel for their lifetime.
NoError == "none"
RpcErrors == {"RpcError_a", "RpcError_b"}
ValueError == "ValueError"
OtherError == "OtherError"

VARIABLES
    local,        \* self._data_request_local: thread -> its attributes
    channels,     \* self._data_request_channels: the registry (a list)
    nextChannel,  \* number of channels create_channel() has returned so far
    closed,       \* channel -> number of close() invocations on it
    owner,        \* channel -> the thread whose _get_channel() created it
    alive,        \* thread -> it has not exited yet
    frame,        \* thread -> its position and local variables inside a call
    done,         \* the call that completed in the last step, if one did
    orderly,      \* the host calls shutdown() only while no call is running
    composer,     \* a request_files / request_changes call and its stream
    drivers,      \* a check_bblfsh_driver_versions computation
    manager       \* an AnalyzerContextManager and the calls made on it

sessionVars == <<local, channels, nextChannel, closed, owner>>
\* What the statements of the DataService session never touch.
otherVars == <<orderly, composer, drivers, manager>>
vars == <<local, channels, nextChannel, closed, owner, alive, frame, done,
          orderly, composer, drivers, manager>>

\* An attribute namespace of threading.local() with nothing set: getattr
\* with default None yields None for each of the three attributes.
EmptySlot == [channel |-> None, data_stub |-> None, bblfsh_stub |-> None]

\* A thread outside every call.  op: the public call in progress; pc: the
\* statement executed next; stack: the statements its pending callers
\* resume at; reg: the local variable `channel` / `stub`; idx: position of
\* shutdown()'s list iterator; err: the RpcError `e` caught by the wrapper;
\* funcCalls / closeCalls: invocations of the wrapped method and of
\* close_channel() made by the wrapper during the call.
IdleFrame ==
    [op |-> "none", pc |-> "idle", stack |-> <<>>, reg |-> None, idx |-> 0,
     err |-> NoError, funcCalls |-> 0, closeCalls |-> 0]

pc(t) == frame[t].pc

\* What the code that made a call sees when it completes: the value
\* returned or the exception raised, with the thread's frame at that point.
Outcome(t, f, v, e) ==
    [thread |-> t, op |-> f.op, ret |-> v, exc |-> e, reg |-> f.reg,
     idx |-> f.idx, err |-> f.err, funcCalls |-> f.funcCalls,
     closeCalls |-> f.closeCalls]

\* No call completed in the last step.
NoCall == Outcome(None, IdleFrame, None, NoError)

\* No request_files / request_changes call has been made.
NoStream == [pc |-> "none"]

\* No check_bblfsh_driver_versions computation is under way.
NoCheck == [pc |-> "none"]

\* No AnalyzerContextManager has been constructed.
NoManager == [pc |-> "none"]

\* DataService.__init__: a fresh threading.local(), an empty registry.
NewDataService ==
    /\ local = [t \in Threads |-> EmptySlot]
    /\ channels = <<>>
    /\ nextChannel = 0
    /\ closed = [c \in ChannelIds |-> 0]
    /\ owner = [c \in ChannelIds |-> None]
    /\ alive = [t \in Threads |-> TRUE]
    /\ frame = [t \in Threads |-> IdleFrame]
    /\ done = NoCall

\* Only the DataService session is exercised.
SessionOnly ==
    composer = NoStream /\ drivers = NoCheck /\ manager = NoManager

\* Worker threads call into the DataService whenever they like.
Init == NewDataService /\ SessionOnly /\ orderly = FALSE

\* The host stops its workers before it calls shutdown(), as
\* AnalyzerContextManager.__exit__ does (listener.stop() comes first): no
\* call overlaps a shutdown().  The other calls still interleave freely.
OrderlyInit == NewDataService /\ SessionOnly /\ orderly = TRUE

\* ------------------------------------------------------ calls and returns

\* list.remove(x): drops the first element equal to x.
RECURSIVE ListRemove(_, _)
ListRemove(s, x) ==
    IF s = <<>> THEN <<>>
    ELSE IF Head(s) = x THEN Tail(s)
    ELSE <<Head(s)>> \o ListRemove(Tail(s), x)

InList(s, x) == \E i \in 1..Len(s) : s[i] = x

\* channel.close()
Close(c) == closed' = [closed EXCEPT ![c] = @ + 1]

\* The statements of shutdown().
ShutdownLabels == {"shutdown", "shutdown_clear", "shutdown_local"}

\* A thread enters public call `op` from outside the DataService; the call
\* starts at statement `first` and `conts` are the statements to resume at
\* when the methods it calls return.
Enter(t, op, first, conts) ==
    /\ pc(t) = "idle"
    /\ alive[t]
    /\ orderly => \A u \in Threads :
                     IF op = "shutdown" THEN pc(u) = "idle"
                     ELSE pc(u) \notin ShutdownLabels
    /\ frame' = [frame EXCEPT ![t] =
                    [IdleFrame EXCEPT !.op = op, !.pc = first, !.stack = conts]]
    /\ done' = NoCall
    /\ UNCHANGED <<sessionVars, alive, otherVars>>

\* One statement inside a call: the thread's frame becomes f.
Step(t, f) ==
    /\ frame' = [frame EXCEPT ![t] = f]
    /\ done' = NoCall
    /\ UNCHANGED otherVars

Goto(t, label) == Step(t, [frame[t] EXCEPT !.pc = label])

\* Call a method of the same object: resume at `cont` when it returns.
Call(t, label, cont) ==
    Step(t, [frame[t] EXCEPT !.pc = label, !.stack = <<cont>> \o @])

\* The call completes: the thread is outside the DataService again.
Complete(t, f, v, e) ==
    /\ frame' = [frame EXCEPT ![t] = IdleFrame]
    /\ done' = Outcome(t, f, v, e)
    /\ UNCHANGED otherVars

\* `return v` with frame f: to the pending caller if there is one, else
\* out of the DataService.
Return(t, f, v) ==
    IF f.stack = <<>>
    THEN Complete(t, f, v, NoError)
    ELSE Step(t, [f EXCEPT !.pc = Head(f.stack), !.stack = Tail(@), !.reg = v])

\* An exception nobody on the stack catches: it reaches the caller.
Raise(t, f, e) == Complete(t, f, None, e)

\* --------------------------------------------------------------- get_data

call_get_data(t) ==
    /\ Enter(t, "get_data", "get_data", <<>>)

\* stub = getattr(local, "data_stub", None); if stub is None: ...; return stub
get_data(t) ==
    /\ pc(t) = "get_data"
    /\ IF local[t].data_stub # None
       THEN Return(t, frame[t], local[t].data_stub)
       ELSE Call(t, "_get_channel", "get_data_store")
    /\ UNCHANGED <<sessionVars, alive>>

\* Mutant: the data stub is kept in an attribute all threads share, as an
\* ordinary object in place of threading.local() would.
get_data_store_shared(t) ==
    /\ pc(t) = "get_data_store"
    /\ local' = [u \in Threads |-> [local[u] EXCEPT !.data_stub = frame[t].reg]]
    /\ Return(t, frame[t], frame[t].reg)
    /\ UNCHANGED <<channels, nextChannel, closed, owner, alive>>

\* Mutant: the new stub is returned but not kept in the thread's slot.
get_data_store_unsaved(t) ==
    /\ pc(t) = "get_data_store"
    /\ Return(t, frame[t], frame[t].reg)
    /\ UNCHANGED <<sessionVars, alive>>

\* local.data_stub = stub = DataStub(<the channel _get_channel returned>)
get_data_store(t) ==
    /\ pc(t) = "get_data_store"
    /\ local' = [local EXCEPT ![t].data_stub = frame[t].reg]
    /\ Return(t, frame[t], frame[t].reg)
    /\ UNCHANGED <<channels, nextChannel, closed, owner, alive>>

\* ------------------------------------------------------------- get_bblfsh

call_get_bblfsh(t) ==
    /\ Enter(t, "get_bblfsh", "get_bblfsh", <<>>)

\* stub = getattr(local, "bblfsh_stub", None); if stub is None: ...
get_bblfsh(t) ==
    /\ pc(t) = "get_bblfsh"
    /\ IF local[t].bblfsh_stub # None
       THEN Return(t, frame[t], local[t].bblfsh_stub)
       ELSE Call(t, "_get_channel", "get_bblfsh_store")
    /\ UNCHANGED <<sessionVars, alive>>

\* local.bblfsh_stub = stub = ProtocolServiceStub(<the channel returned>)
get_bblfsh_store(t) ==
    /\ pc(t) = "get_bblfsh_store"
    /\ local' = [local EXCEPT ![t].bblfsh_stub = frame[t].reg]
    /\ Return(t, frame[t], frame[t].reg)
    /\ UNCHANGED <<channels, nextChannel, closed, owner, alive>>

\* ----------------------------------------------------------- _get_channel

\* Mutant: the `if channel is None` test is lost, every call opens a channel.
_get_channel_always_new(t) ==
    /\ pc(t) = "_get_channel"
    /\ Goto(t, "_get_channel_create")
    /\ UNCHANGED <<sessionVars, alive>>

\* channel = getattr(local, "channel", None); if channel is None: ...
_get_channel(t) ==
    /\ pc(t) = "_get_channel"
    /\ IF local[t].channel # None
       THEN Return(t, frame[t], local[t].channel)
       ELSE Goto(t, "_get_channel_create")
    /\ UNCHANGED <<sessionVars, alive>>

\* local.channel = channel = create_channel(address)
_get_channel_create(t) ==
    /\ pc(t) = "_get_channel_create"
    /\ nextChannel < MaxChannels
    /\ LET c == nextChannel + 1 IN
        /\ nextChannel' = c
        /\ owner' = [owner EXCEPT ![c] = t]
        /\ local' = [local EXCEPT ![t].channel = c]
        /\ Step(t, [frame[t] EXCEPT !.pc = "_get_channel_append", !.reg = c])
    /\ UNCHANGED <<channels, closed, alive>>

\* self._data_request_channels.append(channel); return channel
_get_channel_append(t) ==
    /\ pc(t) = "_get_channel_append"
    /\ channels' = Append(channels, frame[t].reg)
    /\ Return(t, frame[t], frame[t].reg)
    /\ UNCHANGED <<local, nextChannel, closed, owner, alive>>

\* ---------------------------------------------------------- close_channel

call_close_channel(t) ==
    /\ Enter(t, "close_channel", "close_channel", <<>>)

\* Mutant: the `if channel is not None` test is lost.
close_channel_unguarded(t) ==
    /\ pc(t) = "close_channel"
    /\ Step(t, [frame[t] EXCEPT !.pc = "close_channel_remove",
                                !.reg = local[t].channel])
    /\ UNCHANGED <<sessionVars, alive>>

\* channel = getattr(local, "channel", None); if channel is not None: ...
close_channel(t) ==
    /\ pc(t) = "close_channel"
    /\ IF local[t].channel = None
       THEN Return(t, frame[t], None)
       ELSE Step(t, [frame[t] EXCEPT !.pc = "close_channel_remove",
                                     !.reg = local[t].channel])
    /\ UNCHANGED <<sessionVars, alive>>

\* self._data_request_channels.remove(channel): ValueError when absent.
close_channel_remove(t) ==
    /\ pc(t) = "close_channel_remove"
    /\ IF InList(channels, frame[t].reg)
       THEN /\ channels' = ListRemove(channels, frame[t].reg)
            /\ Goto(t, "close_channel_clear")
       ELSE /\ Raise(t, frame[t], ValueError)
            /\ UNCHANGED channels
    /\ UNCHANGED <<local, nextChannel, closed, owner, alive>>

\* Mutant: the attributes of every thread are reset, as shutdown() does.
close_channel_clear_all(t) ==
    /\ pc(t) = "close_channel_clear"
    /\ local' = [u \in Threads |-> EmptySlot]
    /\ Goto(t, "close_channel_close")
    /\ UNCHANGED <<channels, nextChannel, closed, owner, alive>>

\* Mutant: only the channel attribute is reset, the stubs stay.
close_channel_clear_keeps_stubs(t) ==
    /\ pc(t) = "close_channel_clear"
    /\ local' = [local EXCEPT ![t].channel = None]
    /\ Goto(t, "close_channel_close")
    /\ UNCHANGED <<channels, nextChannel, closed, owner, alive>>

\* local.channel = None; local.data_stub = None; local.bblfsh_stub = None
close_channel_clear(t) ==
    /\ pc(t) = "close_channel_clear"
    /\ local' = [local EXCEPT ![t] = EmptySlot]
    /\ Goto(t, "close_channel_close")
    /\ UNCHANGED <<channels, nextChannel, closed, owner, alive>>

\* channel.close()
close_channel_close(t) ==
    /\ pc(t) = "close_channel_close"
    /\ Close(frame[t].reg)
    /\ Return(t, frame[t], None)
    /\ UNCHANGED <<local, channels, nextChannel, owner, alive>>

\* --------------------------------------------------------------- shutdown

call_shutdown(t) ==
    /\ Enter(t, "shutdown", "shutdown", <<>>)

\* Mutant: only the first channel of the registry is closed.
shutdown_first_only(t) ==
    /\ pc(t) = "shutdown"
    /\ IF frame[t].idx < Len(channels) /\ frame[t].idx = 0
       THEN /\ Close(channels[1])
            /\ Step(t, [frame[t] EXCEPT !.idx = 1])
       ELSE /\ Goto(t, "shutdown_clear")
            /\ UNCHANGED closed
    /\ UNCHANGED <<local, channels, nextChannel, owner, alive>>

\* for channel in self._data_request_channels: channel.close()
\* The list iterator keeps an index into the live list.
shutdown(t) ==
    /\ pc(t) = "shutdown"
    /\ IF frame[t].idx < Len(channels)
       THEN /\ Close(channels[frame[t].idx + 1])
            /\ Step(t, [frame[t] EXCEPT !.idx = @ + 1])
       ELSE /\ Goto(t, "shutdown_clear")
            /\ UNCHANGED closed
    /\ UNCHANGED <<local, channels, nextChannel, owner, alive>>

\* Mutant: the registry is not cleared.
shutdown_clear_skipped(t) ==
    /\ pc(t) = "shutdown_clear"
    /\ Goto(t, "shutdown_local")
    /\ UNCHANGED <<sessionVars, alive>>

\* self._data_request_channels.clear()
shutdown_clear(t) ==
    /\ pc(t) = "shutdown_clear"
    /\ channels' = <<>>
    /\ Goto(t, "shutdown_local")
    /\ UNCHANGED <<local, nextChannel, closed, owner, alive>>

\* self._data_request_local = threading.local(): every thread's attributes
\* are gone at once.
shutdown_local(t) ==
    /\ pc(t) = "shutdown_local"
    /\ local' = [u \in Threads |-> EmptySlot]
    /\ Return(t, frame[t], None)
    /\ UNCHANGED <<channels, nextChannel, closed, owner, alive>>

\* ------------------------------------------- decorated analyzer methods

\* A call of a method decorated by one of the six with_*(unicode)(func).
\* The six bodies differ only in the flags they pass to request_files /
\* request_changes; each runs inside the `try` of _handle_rpc_errors and
\* starts with data_service.get_data().
call_decorated(t) ==
    /\ Enter(t, "decorated", "get_data", <<"request">>)

\* request_files(stub, ...) / request_changes(stub, ...): build the request
\* and call stub.GetFiles / stub.GetChanges, which hands back the stream.
request(t) ==
    /\ pc(t) = "request"
    /\ Goto(t, "wrapped_func")
    /\ UNCHANGED <<sessionVars, alive>>

\* Mutant: `except Exception` in place of `except grpc.RpcError`.
handle_rpc_errors_try_catch_all(t, f, outcome) ==
    IF outcome = NoError THEN Return(t, f, None)
    ELSE Step(t, [f EXCEPT !.pc = "except_RpcError", !.err = outcome])

\* try: return func(...) -- what the wrapper does with the outcome of the
\* wrapped method, f being the frame after that call.
handle_rpc_errors_try(t, f, outcome) ==
    IF outcome = NoError THEN Return(t, f, None)
    ELSE IF outcome \in RpcErrors THEN
        Step(t, [f EXCEPT !.pc = "except_RpcError", !.err = outcome])
    ELSE Raise(t, f, outcome)

\* return func(cls, ptr, config, data_service, files=files, **data)
\* The wrapped method consumes the stream: it returns, or the transport
\* fails with a grpc.RpcError, or it raises something else.
wrapped_func(t) ==
    /\ pc(t) = "wrapped_func"
    /\ \E outcome \in {NoError, OtherError} \cup RpcErrors :
          handle_rpc_errors_try(
              t, [frame[t] EXCEPT !.funcCalls = @ + 1], outcome)
    /\ UNCHANGED <<sessionVars, alive>>

\* except grpc.RpcError as e: data_service.close_channel()
handle_rpc_errors_except(t) ==
    /\ pc(t) = "except_RpcError"
    /\ Step(t, [frame[t] EXCEPT !.pc = "close_channel",
                                !.stack = <<"raise_e">> \o @,
                                !.closeCalls = @ + 1])
    /\ UNCHANGED <<sessionVars, alive>>

\* Mutant: a new exception is raised in place of the one caught.
handle_rpc_errors_raise_wrapped(t) ==
    /\ pc(t) = "raise_e"
    /\ Raise(t, frame[t], OtherError)
    /\ UNCHANGED <<sessionVars, alive>>

\* raise e from None
handle_rpc_errors_raise(t) ==
    /\ pc(t) = "raise_e"
    /\ Raise(t, frame[t], frame[t].err)
    /\ UNCHANGED <<sessionVars, alive>>

\* ------------------------------------------------- undecorated RPC callers

\* check_bblfsh_driver_versions: self.get_bblfsh().SupportedLanguages(...)
call_check_bblfsh_driver_versions(t) ==
    /\ Enter(t, "check_bblfsh_driver_versions", "get_bblfsh",
             <<"SupportedLanguages">>)

\* The SupportedLanguages RPC answers or fails at the transport level; no
\* handler surrounds it.
check_bblfsh_driver_versions(t) ==
    /\ pc(t) = "SupportedLanguages"
    /\ \/ Return(t, frame[t], None)
       \/ \E e \in RpcErrors : Raise(t, frame[t], e)
    /\ UNCHANGED <<sessionVars, alive>>

\* parse_uast(stub, code, filename, unicode): the stub comes from
\* data_service.get_bblfsh().
call_parse_uast(t) ==
    /\ Enter(t, "parse_uast", "get_bblfsh", <<"Parse">>)

\* response = stub.Parse(request): answers or fails; no handler.
parse_uast(t) ==
    /\ pc(t) = "Parse"
    /\ \/ Return(t, frame[t], None)
       \/ \E e \in RpcErrors : Raise(t, frame[t], e)
    /\ UNCHANGED <<sessionVars, alive>>

\* ------------------------------------------------------------ thread exit

\* A thread that ends takes its threading.local attributes with it; the
\* registry keeps whatever the thread appended.
thread_exit(t) ==
    /\ pc(t) = "idle"
    /\ alive[t]
    /\ alive' = [alive EXCEPT ![t] = FALSE]
    /\ local' = [local EXCEPT ![t] = EmptySlot]
    /\ done' = NoCall
    /\ UNCHANGED <<channels, nextChannel, closed, owner, frame, otherVars>>

\* ---------------------------------------------------------- specifications

ThreadNext(t) ==
    \/ call_get_data(t)
    \/ get_data(t)
    \/ get_data_store(t)
    \/ call_get_bblfsh(t)
    \/ get_bblfsh(t)
    \/ get_bblfsh_store(t)
    \/ _get_channel(t)
    \/ _get_channel_create(t)
    \/ _get_channel_append(t)
    \/ call_close_channel(t)
    \/ close_channel(t)
    \/ close_channel_remove(t)
    \/ close_channel_clear(t)
    \/ close_channel_close(t)
    \/ call_shutdown(t)
    \/ shutdown(t)
    \/ shutdown_clear(t)
    \/ shutdown_local(t)
    \/ call_decorated(t)
    \/ request(t)
    \/ wrapped_func(t)
    \/ handle_rpc_errors_except(t)
    \/ handle_rpc_errors_raise(t)
    \/ call_check_bblfsh_driver_versions(t)
    \/ check_bblfsh_driver_versions(t)
    \/ call_parse_uast(t)
    \/ parse_uast(t)
    \/ thread_exit(t)

\* Threads interleave statement by statement.
Next == \E t \in Threads : ThreadNext(t)

Spec == Init /\ [][Next]_vars

\* The same machine with shutdown() kept apart from every other call.
OrderlySpec == OrderlyInit /\ [][Next]_vars

\* The frame in which shutdown() executes its last statement.
ShutdownLastFrame ==
    [IdleFrame EXCEPT !.op = "shutdown", !.pc = "shutdown_local"]

\* ds = DataService(address); ds.shutdown() -- the state in which that
\* shutdown() has just returned to some thread.  Every state that follows
\* comes after a completed shutdown().
AfterShutdownInit ==
    /\ local = [t \in Threads |-> EmptySlot]
    /\ channels = <<>>
    /\ nextChannel = 0
    /\ closed = [c \in ChannelIds |-> 0]
    /\ owner = [c \in ChannelIds |-> None]
    /\ alive = [t \in Threads |-> TRUE]
    /\ frame = [t \in Threads |-> IdleFrame]
    /\ \E t \in Threads : done = Outcome(t, ShutdownLastFrame, None, NoError)
    /\ SessionOnly
    /\ orderly = TRUE

\* The orderly machine from the moment its first shutdown() has returned.
AfterShutdownSpec == AfterShutdownInit /\ [][Next]_vars

\* ------------------------------------- request_files / request_changes

\* The File / Change records the data service can send: their offsets
\* count bytes.
Records ==
    {[id |-> i, offsets |-> "bytes", by |-> "service"] : i \in {"a", "b"}}

\* Every stream of at most MaxStream records.
Streams == UNION {[1..n -> Records] : n \in 0..MaxStream}

\* BytesToUnicodeConverter.convert_file / convert_change: a derived copy of
\* the record with unicode-codepoint offsets.
convert_file(r) == [r EXCEPT !.offsets = "unicode", !.by = "convert_file"]
convert_change(r) == [r EXCEPT !.offsets = "unicode", !.by = "convert_change"]

\* Python's `a or b`: a when a is true, else b.
Or(a, b) == IF a THEN a ELSE b

\* Mutant: language detection is requested only together with UASTs.
FilesRequest_language_with_uast(contents, uast) ==
    [message |-> "FilesRequest", exclude_pattern |-> "GARBAGE_PATTERN",
     exclude_vendored |-> TRUE, want_contents |-> contents,
     want_language |-> uast, want_uast |-> uast]

\* request = FilesRequest(revision=ptr.to_pb()) and the five assignments.
FilesRequest(contents, uast) ==
    [message |-> "FilesRequest", exclude_pattern |-> "GARBAGE_PATTERN",
     exclude_vendored |-> TRUE, want_contents |-> contents,
     want_language |-> Or(contents, uast), want_uast |-> uast]

\* request = ChangesRequest(base=..., head=...) and the five assignments.
ChangesRequest(contents, uast) ==
    [message |-> "ChangesRequest", exclude_pattern |-> "GARBAGE_PATTERN",
     exclude_vendored |-> TRUE, want_contents |-> contents,
     want_language |-> Or(contents, uast), want_uast |-> uast]

\* A stream just returned to its caller.  service: what the server sends on
\* this call; pulled: records taken from the gRPC response iterator;
\* converted: the records handed to the converter, in order; yielded: the
\* elements the consumer has received; exhausted: StopIteration was raised.
\* decorator, keyword and funcCalls describe the with_* wrapper, if the
\* call came from one.
NewStream(name, stub, contents, uast, unicode, req, rpc, converter, service) ==
    [pc |-> "stream", composer |-> name, stub |-> stub,
     contents |-> contents, uast |-> uast, unicode |-> unicode,
     request |-> req, rpc |-> rpc, converter |-> converter,
     service |-> service, pulled |-> 0, converted |-> <<>>,
     yielded |-> <<>>, exhausted |-> FALSE,
     decorator |-> "none", decorated_unicode |-> FALSE,
     keyword |-> "none", funcCalls |-> 0]

\* Mutant: the converted stream is materialized before it is returned,
\* as list(map(...)) would.
request_files_eager(stub, contents, uast, unicode, service) ==
    [NewStream("request_files", stub, contents, uast, unicode,
               FilesRequest(contents, uast), "GetFiles",
               IF unicode THEN "convert_file" ELSE "none", service)
       EXCEPT !.pulled = IF unicode THEN Len(service) ELSE 0,
              !.converted = IF unicode THEN service ELSE <<>>]

\* files = stub.GetFiles(request)
\* if unicode: files = map(BytesToUnicodeConverter.convert_file, files)
request_files(stub, contents, uast, unicode, service) ==
    NewStream("request_files", stub, contents, uast, unicode,
              FilesRequest(contents, uast), "GetFiles",
              IF unicode THEN "convert_file" ELSE "none", service)

\* changes = stub.GetChanges(request)
\* if unicode: changes = map(BytesToUnicodeConverter.convert_change, changes)
request_changes(stub, contents, uast, unicode, service) ==
    NewStream("request_changes", stub, contents, uast, unicode,
              ChangesRequest(contents, uast), "GetChanges",
              IF unicode THEN "convert_change" ELSE "none", service)

\* No stream is open; the next call may be made.
IdleStream == [pc |-> "idle"]

ComposerUnchanged ==
    UNCHANGED <<sessionVars, alive, frame, done, orderly, drivers, manager>>

\* request_files() called by code outside the decorators (push events).
call_request_files ==
    /\ composer.pc = "idle"
    /\ \E contents \in BOOLEAN, uast \in BOOLEAN, unicode \in BOOLEAN,
          service \in Streams :
          composer' = request_files("stub", contents, uast, unicode, service)
    /\ ComposerUnchanged

\* request_changes() called by code outside the decorators (review events).
call_request_changes ==
    /\ composer.pc = "idle"
    /\ \E contents \in BOOLEAN, uast \in BOOLEAN, unicode \in BOOLEAN,
          service \in Streams :
          composer' = request_changes("stub", contents, uast, unicode, service)
    /\ ComposerUnchanged

\* return func(..., files=files, **data) / func(..., changes=changes, **data)
\* in the wrapper that with_<name>(unicode) produced.
CallWrapped(name, unicode, keyword, stream) ==
    /\ composer.pc = "idle"
    /\ composer' = [stream EXCEPT !.decorator = name,
                                  !.decorated_unicode = unicode,
                                  !.keyword = keyword,
                                  !.funcCalls = @ + 1]
    /\ ComposerUnchanged

wrapped_with_changed_uasts ==
    \E unicode \in BOOLEAN, service \in Streams :
        CallWrapped("with_changed_uasts", unicode, "changes",
            request_changes("get_data", FALSE, TRUE, unicode, service))

wrapped_with_changed_contents ==
    \E unicode \in BOOLEAN, service \in Streams :
        CallWrapped("with_changed_contents", unicode, "changes",
            request_changes("get_data", TRUE, FALSE, unicode, service))

wrapped_with_changed_uasts_and_contents ==
    \E unicode \in BOOLEAN, service \in Streams :
        CallWrapped("with_changed_uasts_and_contents", unicode, "changes",
            request_changes("get_data", TRUE, TRUE, unicode, service))

wrapped_with_uasts ==
    \E unicode \in BOOLEAN, service \in Streams :
        CallWrapped("with_uasts", unicode, "files",
            request_files("get_data", FALSE, TRUE, unicode, service))

\* Mutant: the flags of with_uasts copied into with_contents.
wrapped_with_contents_as_uasts ==
    \E unicode \in BOOLEAN, service \in Streams :
        CallWrapped("with_contents", unicode, "files",
            request_files("get_data", FALSE, TRUE, unicode, service))

wrapped_with_contents ==
    \E unicode \in BOOLEAN, service \in Streams :
        CallWrapped("with_contents", unicode, "files",
            request_files("get_data", TRUE, FALSE, unicode, service))

wrapped_with_uasts_and_contents ==
    \E unicode \in BOOLEAN, service \in Streams :
        CallWrapped("with_uasts_and_contents", unicode, "files",
            request_files("get_data", TRUE, TRUE, unicode, service))

\* What the consumer receives for service record r.
Element(r) ==
    IF composer.converter = "convert_file" THEN convert_file(r)
    ELSE IF composer.converter = "convert_change" THEN convert_change(r)
    ELSE r

\* Mutant: map() is given the identity in place of the converter.
stream_next_unconverted ==
    /\ composer.pc = "stream"
    /\ ~composer.exhausted
    /\ IF composer.pulled < Len(composer.service)
       THEN LET r == composer.service[composer.pulled + 1] IN
            composer' = [composer EXCEPT
                !.pulled = @ + 1,
                !.converted = IF composer.unicode THEN Append(@, r) ELSE @,
                !.yielded = Append(@, r)]
       ELSE composer' = [composer EXCEPT !.exhausted = TRUE]
    /\ ComposerUnchanged

\* next(stream) by the consumer: map.__next__ takes one record from the
\* response iterator and applies the converter to it; without unicode the
\* consumer reads the response iterator itself.  StopIteration at the end.
stream_next ==
    /\ composer.pc = "stream"
    /\ ~composer.exhausted
    /\ IF composer.pulled < Len(composer.service)
       THEN LET r == composer.service[composer.pulled + 1] IN
            composer' = [composer EXCEPT
                !.pulled = @ + 1,
                !.converted = IF composer.unicode THEN Append(@, r) ELSE @,
                !.yielded = Append(@, Element(r))]
       ELSE composer' = [composer EXCEPT !.exhausted = TRUE]
    /\ ComposerUnchanged

\* The consumer is done with the stream (the wrapped method returns).
stream_drop ==
    /\ composer.pc = "stream"
    /\ composer' = IdleStream
    /\ ComposerUnchanged

ComposerInit ==
    /\ NewDataService
    /\ orderly = FALSE
    /\ drivers = NoCheck
    /\ manager = NoManager
    /\ composer = IdleStream

ComposerNext ==
    \/ call_request_files
    \/ call_request_changes
    \/ wrapped_with_changed_uasts
    \/ wrapped_with_changed_contents
    \/ wrapped_with_changed_uasts_and_contents
    \/ wrapped_with_uasts
    \/ wrapped_with_contents
    \/ wrapped_with_uasts_and_contents
    \/ stream_next
    \/ stream_drop

\* One thread issues requests and consumes their streams.
ComposerSpec == ComposerInit /\ [][ComposerNext]_vars

\* ------------------------------------------ check_bblfsh_driver_versions

Languages == {"python", "go"}
Versions == 1..MaxVersion

\* What Requirement(reqstr) yields for a specifier string such as
\* "python>=2": the name and one version clause.
Requirements ==
    [name : Languages, op : {"==", ">=", "<"}, version : Versions]

RequirementLists == UNION {[1..n -> Requirements] : n \in 0..MaxRequirements}

\* ver in req.specifier
InSpecifier(ver, req) ==
    IF req.op = "==" THEN ver = req.version
    ELSE IF req.op = ">=" THEN ver >= req.version
    ELSE ver < req.version

\* The call is made with `versions`; the parse service has the drivers
\* `installed` (0: no driver for the language).
DriversInit ==
    /\ NewDataService
    /\ orderly = FALSE
    /\ composer = NoStream
    /\ manager = NoManager
    /\ \E installed \in [Languages -> 0..MaxVersion],
          versions \in RequirementLists :
          drivers = [pc |-> "SupportedLanguages", installed |-> installed,
                     versions |-> versions, queries |-> 0,
                     existing |-> [l \in {} |-> 0], i |-> 0,
                     mismatched |-> <<>>, raised |-> <<>>]

DriversUnchanged ==
    UNCHANGED <<sessionVars, alive, frame, done, orderly, composer, manager>>

\* existing = self.get_bblfsh().SupportedLanguages(...).languages
\* existing = {driver.language: Version(driver.version) for driver in existing}
supported_languages ==
    /\ drivers.pc = "SupportedLanguages"
    /\ drivers' = [drivers EXCEPT
          !.pc = "for",
          !.queries = @ + 1,
          !.existing = [l \in {k \in Languages : drivers.installed[k] # 0}
                           |-> drivers.installed[l]]]
    /\ DriversUnchanged

\* The entries appended to `mismatched`.
NotInstalled(req) ==
    [name |-> req.name, why |-> "not installed, but required", version |-> 0,
     specifier |-> <<req.op, req.version>>]

DoesNotSatisfy(ver, req) ==
    [name |-> req.name, why |-> "does not satisfy", version |-> ver,
     specifier |-> <<req.op, req.version>>]

\* Mutant: the error is raised at the first mismatch.
check_requirement_fail_fast ==
    /\ drivers.pc = "for"
    /\ drivers.i < Len(drivers.versions)
    /\ LET req == drivers.versions[drivers.i + 1] IN
          IF req.name \notin DOMAIN drivers.existing
          THEN drivers' = [drivers EXCEPT
                  !.pc = "raised", !.raised = <<NotInstalled(req)>>]
          ELSE IF ~InSpecifier(drivers.existing[req.name], req)
          THEN drivers' = [drivers EXCEPT
                  !.pc = "raised",
                  !.raised = <<DoesNotSatisfy(drivers.existing[req.name], req)>>]
          ELSE drivers' = [drivers EXCEPT !.i = @ + 1]
    /\ DriversUnchanged

\* One turn of `for reqstr in versions`: KeyError -> append and continue;
\* version outside the specifier -> append.
check_requirement ==
    /\ drivers.pc = "for"
    /\ drivers.i < Len(drivers.versions)
    /\ LET req == drivers.versions[drivers.i + 1] IN
          IF req.name \notin DOMAIN drivers.existing
          THEN drivers' = [drivers EXCEPT
                  !.i = @ + 1,
                  !.mismatched = Append(@, NotInstalled(req))]
          ELSE IF ~InSpecifier(drivers.existing[req.name], req)
          THEN drivers' = [drivers EXCEPT
                  !.i = @ + 1,
                  !.mismatched = Append(@,
                      DoesNotSatisfy(drivers.existing[req.name], req))]
          ELSE drivers' = [drivers EXCEPT !.i = @ + 1]
    /\ DriversUnchanged

\* if mismatched: raise UnsatisfiedDriverVersionError(mismatched)
\* `raised` holds the (name, message) pairs the error's args enumerate.
raise_if_mismatched ==
    /\ drivers.pc = "for"
    /\ drivers.i = Len(drivers.versions)
    /\ IF drivers.mismatched # <<>>
       THEN drivers' = [drivers EXCEPT
               !.pc = "raised", !.raised = drivers.mismatched]
       ELSE drivers' = [drivers EXCEPT !.pc = "returned"]
    /\ DriversUnchanged

DriversNext ==
    \/ supported_languages
    \/ check_requirement
    \/ raise_if_mismatched

\* One call of check_bblfsh_driver_versions whose RPC is answered.
DriversSpec == DriversInit /\ [][DriversNext]_vars

\* ------------------------------------------- AnalyzerContextManager

Ports == 1..MaxPort
AttributeError == "AttributeError"
\* The object LookoutSDK() returns (any instance is true in a condition).
LookoutSDK == 1

\* The LookoutSDK was not invoked by the call.
NoSdkCall == [method |-> "none", port |-> 0]

\* The state __init__ leaves: a port from find_port(), no LookoutSDK; the
\* attributes model_repository, data_service and listener do not exist yet.
\* `trace` lists the calls completed so far with their outcomes.
ManagerInit ==
    /\ NewDataService
    /\ orderly = FALSE
    /\ composer = NoStream
    /\ drivers = NoCheck
    /\ \E init \in BOOLEAN, port \in Ports :
          manager = [pc |-> "idle", op |-> "none", init |-> init,
                     _port |-> port, _lookout_sdk |-> None,
                     model_repository |-> "absent",
                     data_service |-> "absent", listener |-> "absent",
                     trace |-> <<>>]

ManagerUnchanged ==
    UNCHANGED <<sessionVars, alive, frame, done, orderly, composer, drivers>>

\* The caller makes its next call once the previous one has completed.
ManagerCall(op, first) ==
    /\ manager.pc = "idle"
    /\ Len(manager.trace) < MaxCalls
    /\ manager' = [manager EXCEPT !.op = op, !.pc = first]
    /\ ManagerUnchanged

\* The running call completes with exception e (NoError: it returns),
\* having invoked the LookoutSDK as `sdk` says, in manager state m.
ManagerComplete(m, e, sdk) ==
    /\ manager' = [m EXCEPT
          !.pc = "idle", !.op = "none",
          !.trace = Append(@, [op |-> manager.op, exc |-> e, sdk |-> sdk])]
    /\ ManagerUnchanged

ManagerGoto(m, next) ==
    /\ manager' = [m EXCEPT !.pc = next]
    /\ ManagerUnchanged

\* with AnalyzerContextManager(...) as ...: / an explicit __enter__().
__enter__ ==
    /\ ManagerCall("__enter__", "model_repository")

\* self.model_repository = create_model_repo_from_args(...)
\* if self.init: self.model_repository.init()
\* Opening the database may fail.
enter_model_repository ==
    /\ manager.pc = "model_repository"
    /\ manager.op = "__enter__"
    /\ \/ ManagerGoto([manager EXCEPT !.model_repository =
                          IF manager.init THEN "initialized" ELSE "created"],
                      "data_service")
       \/ ManagerComplete(manager, OtherError, NoSdkCall)

\* self.data_service = DataService(self.data_request_address)
\* self.manager = AnalyzerManager(...)
enter_data_service ==
    /\ manager.pc = "data_service"
    /\ ManagerGoto([manager EXCEPT !.data_service = "running"], "port")

\* if not check_port_free(self._port): self._port = find_port()
enter_port ==
    /\ manager.pc = "port"
    /\ \E free \in BOOLEAN, port \in Ports :
          ManagerGoto([manager EXCEPT
                          !._port = IF free THEN @ ELSE port], "listener")

\* self.listener = EventListener(...); self.listener.start()
\* Binding the address may fail: the new listener is then left unstarted.
enter_listener ==
    /\ manager.pc = "listener"
    /\ \/ ManagerGoto([manager EXCEPT !.listener = "started"], "lookout_sdk")
       \/ ManagerComplete([manager EXCEPT !.listener = "created"],
                          OtherError, NoSdkCall)

\* self._lookout_sdk = LookoutSDK(); return self
enter_lookout_sdk ==
    /\ manager.pc = "lookout_sdk"
    /\ manager.op = "__enter__"
    /\ ManagerComplete([manager EXCEPT !._lookout_sdk = LookoutSDK],
                       NoError, NoSdkCall)

\* The `with` block is left / an explicit __exit__().
__exit__ ==
    /\ ManagerCall("__exit__", "lookout_sdk")

\* An __exit__ that leaves the LookoutSDK in place.
exit_lookout_sdk_kept ==
    /\ manager.pc = "lookout_sdk"
    /\ manager.op = "__exit__"
    /\ ManagerGoto(manager, "listener_stop")

\* self._lookout_sdk = None
exit_lookout_sdk ==
    /\ manager.pc = "lookout_sdk"
    /\ manager.op = "__exit__"
    /\ ManagerGoto([manager EXCEPT !._lookout_sdk = None], "listener_stop")

\* self.listener.stop(); the attribute does not exist before the first
\* __enter__ has reached the listener's construction.
exit_listener_stop ==
    /\ manager.pc = "listener_stop"
    /\ IF manager.listener = "absent"
       THEN ManagerComplete(manager, AttributeError, NoSdkCall)
       ELSE ManagerGoto([manager EXCEPT !.listener = "stopped"],
                        "model_repository")

\* self.model_repository.shutdown()
exit_model_repository_shutdown ==
    /\ manager.pc = "model_repository"
    /\ manager.op = "__exit__"
    /\ ManagerGoto([manager EXCEPT !.model_repository = "shutdown"],
                   "data_service_shutdown")

\* self.data_service.shutdown()
exit_data_service_shutdown ==
    /\ manager.pc = "data_service_shutdown"
    /\ ManagerComplete([manager EXCEPT !.data_service = "shutdown"],
                       NoError, NoSdkCall)

\* if not self._lookout_sdk: raise AttributeError(...)
\* return self._lookout_sdk.<method>(fr, to, self._port, ...)
\* The LookoutSDK call returns the completed process or raises.
Proxy(method) ==
    /\ manager.pc = "proxy"
    /\ manager.op = method
    /\ IF manager._lookout_sdk = None
       THEN ManagerComplete(manager, AttributeError, NoSdkCall)
       ELSE \E e \in {NoError, OtherError} :
               ManagerComplete(manager, e,
                               [method |-> method, port |-> manager._port])

call_review ==
    /\ ManagerCall("review", "proxy")

review ==
    /\ Proxy("review")

call_push ==
    /\ ManagerCall("push", "proxy")

push ==
    /\ Proxy("push")

ManagerNext ==
    \/ __enter__
    \/ enter_model_repository
    \/ enter_data_service
    \/ enter_port
    \/ enter_listener
    \/ enter_lookout_sdk
    \/ __exit__
    \/ exit_lookout_sdk
    \/ exit_listener_stop
    \/ exit_model_repository_shutdown
    \/ exit_data_service_shutdown
    \/ call_review
    \/ review
    \/ call_push
    \/ push

\* One AnalyzerContextManager, called by one caller, one call at a time.
ManagerSpec == ManagerInit /\ [][ManagerNext]_vars

\* ------------------------------------------------------ derived notions

\* Channels create_channel() has returned so far.
Opened == 1..nextChannel

IsClosed(c) == closed[c] > 0

\* Channels opened on behalf of thread t on which close() was never called.
OpenChannels(t) == {c \in Opened : owner[c] = t /\ ~IsClosed(c)}

\* The channels a thread's slot refers to, directly or through a stub.
SlotChannels(t) ==
    {local[t].channel, local[t].data_stub, local[t].bblfsh_stub} \ {None}

InShutdown == \E u \in Threads : pc(u) \in ShutdownLabels

Quiescent == \A u \in Threads : pc(u) = "idle"

\* A getter has just handed a stub to the code that called it.
StubReturned ==
    /\ done.op \in {"get_data", "get_bblfsh"}
    /\ done.exc = NoError

\* ------------------------------------------------------------------- C1

\* C1: every thread has at most one channel that was opened for it and is
\* not yet closed, and when its slot holds both a data stub and a parse
\* stub (no shutdown() being under way) both are bound to that one channel.
C1_AtMostOneLiveChannel ==
    \A t \in Threads :
        /\ Cardinality(OpenChannels(t)) <= 1
        /\ (~InShutdown /\ local[t].data_stub # None
                /\ local[t].bblfsh_stub # None)
              => /\ local[t].data_stub = local[t].bblfsh_stub
                 /\ OpenChannels(t) = {local[t].data_stub}

\* A thread on its second channel, holding both stubs, its first channel
\* closed, while another thread holds a channel of its own.
C1_Witness ==
    \E t \in Threads : \E u \in Threads \ {t} :
        /\ local[t].data_stub # None
        /\ local[t].bblfsh_stub # None
        /\ \E c \in Opened : owner[c] = t /\ closed[c] = 1
        /\ local[u].channel # None
        /\ Quiescent

\* ------------------------------------------------------------------- C2

\* C2: under any interleaving, no channel is referred to by the slots of
\* two different threads, and the stub a thread receives from get_data() /
\* get_bblfsh() is bound to a channel opened for that thread, which no
\* other thread's slot refers to.
C2_NoChannelSharedAcrossThreads ==
    /\ \A t \in Threads : \A u \in Threads \ {t} :
          SlotChannels(t) \cap SlotChannels(u) = {}
    /\ StubReturned =>
          /\ owner[done.ret] = done.thread
          /\ \A u \in Threads \ {done.thread} : done.ret \notin SlotChannels(u)

\* Two get_data() calls that overlapped (the thread that created its
\* channel first registered it last); the second of them returns its stub
\* while the other thread holds the stub it received.
C2_Witness ==
    \E t \in Threads : \E u \in Threads \ {t} :
        /\ StubReturned /\ done.op = "get_data"
        /\ done.thread = t /\ done.ret = 1
        /\ pc(u) = "idle" /\ local[u].data_stub = 2
        /\ channels = <<2, 1>>

\* ------------------------------------------------------------------- C3

\* C3: whenever get_data() or get_bblfsh() returns, under any interleaving
\* with other threads' calls (a shutdown() in progress included), the
\* channel behind the returned stub is open at that moment.
C3_ReturnedStubIsOpen == StubReturned => ~IsClosed(done.ret)

\* ------------------------------------------------------------------- C4

\* A thread's slot holds nothing, or a channel and both stubs.
SlotEmpty(t) == local[t] = EmptySlot

SlotFull(t) ==
    /\ local[t].channel # None
    /\ local[t].data_stub # None
    /\ local[t].bblfsh_stub # None

ClosedChannels(t) == {c \in Opened : owner[c] = t /\ IsClosed(c)}

\* C5: no channel is ever closed twice; when close_channel() returns, the
\* calling thread's slot is empty and each of its channels is closed and
\* off the registry; and the stub a later get_data() returns to the thread
\* is bound to an open channel created after all the closed ones, which is
\* the channel now in the thread's slot.
C5_FreshChannelAfterClose ==
    /\ \A c \in Opened : closed[c] <= 1
    /\ (done.op = "close_channel" /\ done.exc = NoError) =>
          /\ SlotEmpty(done.thread)
          /\ OpenChannels(done.thread) = {}
          /\ \A c \in ClosedChannels(done.thread) : ~InList(channels, c)
    /\ (StubReturned /\ done.op = "get_data") =>
          /\ ~IsClosed(done.ret)
          /\ local[done.thread].channel = done.ret
          /\ \A c \in ClosedChannels(done.thread) : done.ret > c

\* get_data() returns a stub on a third channel to a thread whose previous
\* channel was closed by its close_channel(): an older channel of another
\* thread is still open and registered, so no shutdown() closed it.
C5_Witness ==
    \E u \in Threads \ {done.thread} :
        /\ StubReturned /\ done.op = "get_data"
        /\ done.ret = 3
        /\ owner[2] = done.thread /\ closed[2] = 1
        /\ local[u].channel = 1 /\ closed[1] = 0
        /\ channels = <<1, 3>>

\* ------------------------------------------------------------------- C6

\* Thread t executes the test of close_channel() in this step.
CloseChannelTest(t) == pc(t) = "close_channel" /\ frame'[t] # frame[t]

\* C6: under any interleaving, a close_channel() that finds no channel in
\* the calling thread's slot changes neither the slots, nor the registry,
\* nor the close() count of any channel, and returns without raising.
C6_CloseWithoutChannelIsNoOp ==
    [][\A t \in Threads :
          (CloseChannelTest(t) /\ local[t].channel = None) =>
             /\ local' = local
             /\ channels' = channels
             /\ closed' = closed
             /\ nextChannel' = nextChannel
             /\ frame[t].op = "close_channel" =>
                   done' = Outcome(t, frame[t], None, NoError)]_vars

\* A close_channel() has returned having found no channel, on a thread
\* whose channel had been closed before; the registry still holds another
\* thread's channel.
C6_Witness ==
    /\ done.op = "close_channel" /\ done.exc = NoError
    /\ done.reg = None
    /\ ClosedChannels(done.thread) # {}
    /\ channels # <<>>

\* ------------------------------------------------------------------- C7

\* C7: when shutdown() returns it has raised nothing, close() has been
\* invoked on every channel ever opened, whoever opened it, and the
\* registry is empty.
C7_ShutdownClosesEverything ==
    done.op = "shutdown" =>
        /\ done.exc = NoError
        /\ \A c \in Opened : IsClosed(c)
        /\ channels = <<>>

\* shutdown() returns after closing two of three channels: the third had
\* been closed by its thread's close_channel(), and one of the two belongs
\* to a thread that has exited.
C7_Witness ==
    /\ done.op = "shutdown" /\ done.idx = 2
    /\ nextChannel = 3
    /\ \A c \in Opened : closed[c] = 1
    /\ \E u \in Threads : ~alive[u] /\ Cardinality(ClosedChannels(u)) = 2

\* ------------------------------------------------------------------- C8

\* The session state a completed shutdown() leaves behind, which lasts
\* until a thread next opens a channel.
ShutDown ==
    /\ \A c \in Opened : IsClosed(c)
    /\ \A t \in Threads : SlotEmpty(t)

\* Thread t executes a statement of shutdown() in this step.
ShutdownStep(t) == pc(t) \in ShutdownLabels /\ frame'[t] # frame[t]

\* C8: a shutdown() that runs when every channel is closed and every slot
\* is empty invokes close() on no channel, leaves the slots and an empty
\* registry as they are, and returns without raising.
C8_ShutdownIdempotent ==
    [][\A t \in Threads :
          (ShutdownStep(t) /\ ShutDown) =>
             /\ closed' = closed
             /\ local' = local
             /\ nextChannel' = nextChannel
             /\ channels = <<>> => channels' = <<>>
             /\ pc(t) = "shutdown_local" =>
                   /\ channels' = <<>>
                   /\ done' = Outcome(t, frame[t], None, NoError)]_vars

\* A shutdown() has returned without having found a channel to close, in a
\* session all of whose channels, of two threads, had been closed.
C8_Witness ==
    /\ done.op = "shutdown" /\ done.idx = 0
    /\ ShutDown
    /\ \A t \in Threads : ClosedChannels(t) # {}

\* ------------------------------------------------------------------- C9

\* C9: when the method wrapped by a with_* decorator has raised a
\* grpc.RpcError, the decorated call ends by raising that same error, after
\* the wrapper has called close_channel() exactly once and the wrapped
\* method exactly once; the thread's slot is empty by then.
C9_RpcErrorClosesOnceAndReraises ==
    (done.op = "decorated" /\ done.err # NoError) =>
        /\ done.exc = done.err
        /\ done.closeCalls = 1
        /\ done.funcCalls = 1
        /\ SlotEmpty(done.thread)
        /\ OpenChannels(done.thread) = {}

\* A decorated call has raised the second of the two transport errors; the
\* channel it ran on is closed.
C9_Witness ==
    /\ done.op = "decorated"
    /\ done.exc = "RpcError_b"
    /\ done.closeCalls = 1
    /\ ClosedChannels(done.thread) # {}

\* ------------------------------------------------------------------ C10

\* C10: when a call ends by raising a transport error, close_channel() has
\* run for the calling thread, whose slot holds no channel any more.
C10_TransportFailureClosesChannel ==
    done.exc \in RpcErrors =>
        /\ done.closeCalls = 1
        /\ local[done.thread].channel = None

\* ------------------------------------------------------------------ C11

\* A session-scoped request has completed.
RequestCompleted == done.op \in {"get_data", "get_bblfsh", "decorated"}

\* C11: once shutdown() has completed, every get_data(), get_bblfsh() or
\* decorated call that completes later ends with an error.
C11_RequestAfterShutdownFails == RequestCompleted => done.exc # NoError

\* ------------------------------------------------------------------ C12

\* Thread u has started the iteration of shutdown() and has not yet
\* replaced the thread-local state.
InsideShutdown(u) ==
    \/ pc(u) = "shutdown" /\ frame[u].idx > 0
    \/ pc(u) \in {"shutdown_clear", "shutdown_local"}

\* Thread t appends to or removes from the registry in this step.
RegistryAddOrRemove(t) ==
    /\ pc(t) \in {"_get_channel_append", "close_channel_remove"}
    /\ frame'[t] # frame[t]
    /\ channels' # channels

\* C12: no thread adds to or removes from the registry while another
\* thread is inside shutdown()'s iterate-close-clear-replace sequence.
C12_RegistryMutuallyExclusive ==
    [][\A t \in Threads :
          RegistryAddOrRemove(t) =>
             \A u \in Threads \ {t} : ~InsideShutdown(u)]_vars

\* ------------------------------------------------------------------ C13

\* A request has been issued and its stream returned.
StreamOpen == composer.pc = "stream"

\* C13: the request issued by request_files / request_changes carries
\* want_contents = contents, want_uast = uast and want_language = (contents
\* or uast), whatever the two flags are, and is issued on the stub's
\* GetFiles / GetChanges.
C13_WantLanguageIsContentsOrUast ==
    StreamOpen =>
        /\ composer.request.want_contents = composer.contents
        /\ composer.request.want_uast = composer.uast
        /\ composer.request.want_language
              = (composer.contents \/ composer.uast)
        /\ composer.composer = "request_files" =>
              /\ composer.request.message = "FilesRequest"
              /\ composer.rpc = "GetFiles"
        /\ composer.composer = "request_changes" =>
              /\ composer.request.message = "ChangesRequest"
              /\ composer.rpc = "GetChanges"

\* request_files(contents=False, uast=False) has issued its request, with
\* want_language False, and the whole stream has been read.
C13_Witness ==
    /\ StreamOpen
    /\ composer.composer = "request_files"
    /\ ~composer.contents /\ ~composer.uast
    /\ composer.request.want_language = FALSE
    /\ composer.rpc = "GetFiles"
    /\ composer.exhausted /\ Len(composer.yielded) = MaxStream

\* ------------------------------------------------------------------ C14

\* C14: when the consumer has read a stream to its end, it has received as
\* many elements as the service sent records; with unicode the i-th element
\* is the converter of the record kind applied to the i-th record and every
\* record went through the converter; without unicode the i-th element is
\* the i-th record itself and the converter was never applied.
C14_ConvertedElementwiseOrUntouched ==
    (StreamOpen /\ composer.exhausted) =>
        /\ Len(composer.yielded) = Len(composer.service)
        /\ \A i \in 1..Len(composer.service) :
              composer.yielded[i] =
                 IF ~composer.unicode THEN composer.service[i]
                 ELSE IF composer.composer = "request_files"
                      THEN convert_file(composer.service[i])
                      ELSE convert_change(composer.service[i])
        /\ composer.converted =
              IF composer.unicode THEN composer.service ELSE <<>>

\* request_changes(unicode=True) has been read to the end of a stream of
\* two different records.
C14_Witness ==
    /\ StreamOpen /\ composer.exhausted
    /\ composer.composer = "request_changes"
    /\ composer.unicode
    /\ Len(composer.service) = 2
    /\ composer.service[1] # composer.service[2]
    /\ composer.yielded[2] = convert_change(composer.service[2])

\* ------------------------------------------------------------------ C15

\* C15: at every moment of a stream's life, the records taken from the
\* service are exactly those behind the elements the consumer has received
\* so far, in the service's order, and the converter has been applied to
\* exactly those records (to none without unicode): nothing is pulled or
\* converted ahead of the consumer.
C15_LazyAndOrderPreserving ==
    StreamOpen =>
        /\ composer.pulled = Len(composer.yielded)
        /\ composer.pulled <= Len(composer.service)
        /\ \A i \in 1..Len(composer.yielded) :
              composer.yielded[i].id = composer.service[i].id
        /\ composer.converted =
              IF composer.unicode
              THEN SubSeq(composer.service, 1, Len(composer.yielded))
              ELSE <<>>

\* The consumer has taken the first of two different records of a
\* request_files(unicode=True) stream: one record pulled, one converted.
C15_Witness ==
    /\ StreamOpen
    /\ composer.composer = "request_files"
    /\ composer.unicode
    /\ Len(composer.service) = 2
    /\ composer.service[1] # composer.service[2]
    /\ composer.pulled = 1
    /\ composer.converted = <<composer.service[1]>>
    /\ Len(composer.yielded) = 1

\* ------------------------------------------------------------------ C16

\* check_bblfsh_driver_versions has returned or raised.
CheckFinished == drivers.pc \in {"returned", "raised"}

\* A requirement the installed drivers do not meet.
Unmet(req) ==
    \/ drivers.installed[req.name] = 0
    \/ ~InSpecifier(drivers.installed[req.name], req)

\* C16: when check_bblfsh_driver_versions finishes it has queried the
\* supported languages exactly once; it raises exactly when some
\* requirement is unmet; and the error lists the unmet requirements, all of
\* them and only them, in the order given, each as not installed or as not
\* satisfying its specifier according to what is installed.
C16_AggregatesEveryMismatch ==
    CheckFinished =>
        LET unmet == SelectSeq(drivers.versions, Unmet) IN
        /\ drivers.queries = 1
        /\ (drivers.pc = "raised") = (unmet # <<>>)
        /\ Len(drivers.raised) = Len(unmet)
        /\ \A k \in 1..Len(unmet) :
              /\ drivers.raised[k].name = unmet[k].name
              /\ drivers.raised[k].specifier = <<unmet[k].op, unmet[k].version>>
              /\ (drivers.raised[k].why = "not installed, but required")
                    = (drivers.installed[unmet[k].name] = 0)

\* ["python>=2", "go==1"] against {python: 1}: the error lists python
\* (version 1 does not satisfy >=2) and go (not installed).
C16_Witness ==
    /\ drivers.pc = "raised"
    /\ drivers.installed = [l \in Languages |-> IF l = "python" THEN 1 ELSE 0]
    /\ drivers.versions =
          <<[name |-> "python", op |-> ">=", version |-> 2],
            [name |-> "go", op |-> "==", version |-> 1]>>
    /\ Len(drivers.raised) = 2
    /\ drivers.raised[1].name = "python"
    /\ drivers.raised[1].why = "does not satisfy"
    /\ drivers.raised[2].name = "go"
    /\ drivers.raised[2].why = "not installed, but required"

\* ------------------------------------------------------------------ C17

\* C17: in every call of a method decorated by one of the six factories,
\* the request is made on the stub from data_service.get_data(), by
\* request_files for the file variants and request_changes for the change
\* variants, with the decorator's own contents / uast flags and the unicode
\* value given at decoration time; the stream goes to the wrapped method
\* under the keyword files resp. changes, and the wrapped method is invoked
\* once.
C17_DecoratorsPassFixedFlags ==
    (StreamOpen /\ composer.decorator # "none") =>
        LET d == composer.decorator
            changed == d \in {"with_changed_uasts", "with_changed_contents",
                              "with_changed_uasts_and_contents"}
        IN
        /\ composer.stub = "get_data"
        /\ composer.composer =
              IF changed THEN "request_changes" ELSE "request_files"
        /\ composer.keyword = IF changed THEN "changes" ELSE "files"
        /\ composer.contents =
              (d \in {"with_contents", "with_changed_contents",
                      "with_uasts_and_contents",
                      "with_changed_uasts_and_contents"})
        /\ composer.uast =
              (d \in {"with_uasts", "with_changed_uasts",
                      "with_uasts_and_contents",
                      "with_changed_uasts_and_contents"})
        /\ composer.unicode = composer.decorated_unicode
        /\ composer.funcCalls = 1

\* A method decorated by with_changed_contents(unicode=True) has consumed
\* its whole `changes` stream.
C17_Witness ==
    /\ StreamOpen
    /\ composer.decorator = "with_changed_contents"
    /\ composer.decorated_unicode
    /\ composer.keyword = "changes"
    /\ composer.request.want_contents /\ ~composer.request.want_uast
    /\ composer.exhausted /\ Len(composer.yielded) = MaxStream

\* ------------------------------------------------------------------ C18

CloseChannelLabels ==
    {"close_channel", "close_channel_remove", "close_channel_clear",
     "close_channel_close"}

GetterLabels ==
    {"get_data", "get_data_store", "get_bblfsh", "get_bblfsh_store",
     "_get_channel", "_get_channel_create", "_get_channel_append"}

\* Thread t executes a statement with one of the labels in this step.
Executes(t, labels) == pc(t) \in labels /\ frame'[t] # frame[t]

\* C18: under any interleaving, a statement of close_channel() executed by
\* a thread leaves every other thread's slot as it is, and neither closes
\* the channel in another thread's slot nor changes whether it is in the
\* registry; a statement of get_data() / get_bblfsh() executed by a thread
\* leaves every other thread's slot as it is.
C18_OnlyOwnStateChanges ==
    [][\A t \in Threads : \A u \in Threads \ {t} :
          /\ Executes(t, CloseChannelLabels) =>
                /\ local'[u] = local[u]
                /\ local[u].channel # None =>
                      /\ closed'[local[u].channel] = closed[local[u].channel]
                      /\ InList(channels', local[u].channel)
                            = InList(channels, local[u].channel)
          /\ Executes(t, GetterLabels) => local'[u] = local[u]]_vars

\* close_channel() has closed the calling thread's channel and returned;
\* another thread still holds its own channel and data stub, open and
\* registered.
C18_Witness ==
    /\ done.op = "close_channel" /\ done.exc = NoError
    /\ done.reg # None /\ closed[done.reg] = 1
    /\ \E u \in Threads \ {done.thread} :
          /\ local[u].channel # None
          /\ local[u].data_stub = local[u].channel
          /\ ~IsClosed(local[u].channel)
          /\ InList(channels, local[u].channel)

\* ------------------------------------------------------------------ C19

\* The channels in the registry.
Registered == {channels[i] : i \in 1..Len(channels)}

\* C19: whenever no session operation is in progress, under any
\* interleaving, the registry has no duplicates and holds exactly the
\* channels that were opened and are not closed, the channel of every slot
\* among them.
C19_RegistryConsistent ==
    Quiescent =>
        /\ Cardinality(Registered) = Len(channels)
        /\ Registered = {c \in Opened : ~IsClosed(c)}
        /\ \A t \in Threads :
              local[t].channel # None => local[t].channel \in Registered

\* ------------------------------------------------------------------ C20

\* C20: when a decorated call ends without a grpc.RpcError reaching the
\* caller (it returns, or raises another exception), the wrapper has
\* caught nothing and has not called close_channel(), the wrapped method
\* ran once, and the thread's slot still holds the channel and data stub
\* the call used, open and registered.
C20_NoCloseWithoutRpcError ==
    (done.op = "decorated" /\ done.exc \notin RpcErrors) =>
        /\ done.exc \in {NoError, OtherError}
        /\ done.err = NoError
        /\ done.closeCalls = 0
        /\ done.funcCalls = 1
        /\ local[done.thread].channel # None
        /\ local[done.thread].data_stub = local[done.thread].channel
        /\ ~IsClosed(local[done.thread].channel)
        /\ InList(channels, local[done.thread].channel)

\* A decorated call has ended with an exception that is no grpc.RpcError;
\* its channel is still in the slot.
C20_Witness ==
    /\ done.op = "decorated"
    /\ done.exc = OtherError
    /\ local[done.thread].channel # None
    /\ ClosedChannels(done.thread) = {}

\* The completed calls that decide whether the proxies are usable: every
\* __exit__ and every __enter__ that returned.
LifecycleCalls(trace) ==
    {i \in 1..Len(trace) :
        \/ trace[i].op = "__exit__"
        \/ trace[i].op = "__enter__" /\ trace[i].exc = NoError}

\* The last call of `trace` that decides it is an __enter__: the caller is
\* between an __enter__ and the __exit__ that matches it.
InsideWith(trace) ==
    /\ LifecycleCalls(trace) # {}
    /\ LET last == CHOOSE i \in LifecycleCalls(trace) :
                       \A j \in LifecycleCalls(trace) : j <= i
       IN  trace[last].op = "__enter__"

\* A review() or push() has just completed.
ProxyCompleted ==
    /\ manager.pc = "idle"
    /\ manager.trace # <<>>
    /\ manager.trace[Len(manager.trace)].op \in {"review", "push"}

\* C21: a review() or push() made before the first __enter__ or after an
\* __exit__ with no later __enter__ raises AttributeError and does not
\* invoke the LookoutSDK; one made between an __enter__ and its __exit__ is
\* forwarded to the same-named LookoutSDK method with the manager's port;
\* and the DataService is never shut down while the listener of the
\* manager is not stopped.
C21_ProxiesUsableOnlyInsideWith ==
    /\ ProxyCompleted =>
          LET n == Len(manager.trace)
              call == manager.trace[n]
          IN  IF InsideWith(SubSeq(manager.trace, 1, n - 1))
              THEN call.sdk = [method |-> call.op, port |-> manager._port]
              ELSE call.exc = AttributeError /\ call.sdk = NoSdkCall
    /\ manager.data_service = "shutdown" => manager.listener = "stopped"

\* __enter__, a forwarded review(), __exit__, then a push() that raises.
C21_Witness ==
    /\ manager.pc = "idle"
    /\ Len(manager.trace) = 4
    /\ manager.trace[1] = [op |-> "__enter__", exc |-> NoError,
                           sdk |-> NoSdkCall]
    /\ manager.trace[2].op = "review"
    /\ manager.trace[2].sdk.method = "review"
    /\ manager.trace[3] = [op |-> "__exit__", exc |-> NoError,
                           sdk |-> NoSdkCall]
    /\ manager.trace[4] = [op |-> "push", exc |-> AttributeError,
                           sdk |-> NoSdkCall]
    /\ manager.data_service = "shutdown"
    /\ manager.listener = "stopped"

====
